---- MODULE Spec2Model ----
(***************************************************************************)
(* Model of the Calendar component (src/components/Calendar/Calendar.tsx). *)
(* The component keeps three pieces of state (selectedDate, currentYear,   *)
(* currentMonth), re-renders its header and body after every event, and    *)
(* computes the rendered grids with getDatesByWeek, getYearsByDecade and   *)
(* getDecade.  Dates are JavaScript Date values in local time, modelled as *)
(* records [year, month, date, hours] with month 0..11.                    *)
(***************************************************************************)
EXTENDS Integers, Sequences, FiniteSets, TLC

VARIABLES
    today,            \* new Date() read by the component
    mode,             \* props.mode
    weekStart,        \* props.weekStart
    disableTodayAgo,  \* props.disableTodayAgo
    disabledDate,     \* props.disabledDate (a predicate, or absent)
    selectedDate,     \* state: selected date or null
    currentYear,      \* state: displayed year
    currentMonth,     \* state: displayed month
    datesByWeek,      \* rendered date grid (date mode)
    disabledCells,    \* rendered cells carrying the 'disabled' class
    decade,           \* rendered header decade (year mode)
    years,            \* rendered year cells (year mode)
    lastEvent         \* the last event handled, and whether it called onChange

vars == <<today, mode, weekStart, disableTodayAgo, disabledDate, selectedDate,
          currentYear, currentMonth, datesByWeek, disabledCells, decade, years,
          lastEvent>>

props == <<today, mode, weekStart, disableTodayAgo, disabledDate>>

----------------------------------------------------------------------------
(* Bounds of the exploration *)

\* date mode: the months shown are within MaxMonths months of today's month,
\* or today's month in one of the MaxYears years after today's
MaxMonths == 1
\* month mode: the years shown are within MaxYears of today's year
MaxYears == 1
\* year mode: years shown are within 10 * MaxDecades of today's year
MaxDecades == 2
\* first render only: the value prop lies within RenderYears of today's year
RenderYears == 3
\* first render, year mode: value year within 10 * RenderDecades of today's year
RenderDecades == 2

----------------------------------------------------------------------------
(* JavaScript Date, local time *)

null == [isNull |-> TRUE]

MkDate(y, m, d, h) == [year |-> y, month |-> m, date |-> d, hours |-> h]

IsLeapYear(y) == (y % 4 = 0 /\ y % 100 # 0) \/ y % 400 = 0

DaysInMonth(y, m) ==
    IF m = 1 THEN (IF IsLeapYear(y) THEN 29 ELSE 28)
    ELSE IF m \in {3, 5, 8, 10} THEN 30 ELSE 31

\* new Date(year, month, day): a day number outside the month rolls over
\* into the neighbouring months; the time of day is midnight.
RECURSIVE NewDate(_, _, _)
NewDate(y, m, d) ==
    IF d < 1 THEN
        LET py == IF m = 0 THEN y - 1 ELSE y
            pm == IF m = 0 THEN 11 ELSE m - 1
        IN  NewDate(py, pm, d + DaysInMonth(py, pm))
    ELSE IF d > DaysInMonth(y, m) THEN
        LET ny == IF m = 11 THEN y + 1 ELSE y
            nm == IF m = 11 THEN 0 ELSE m + 1
        IN  NewDate(ny, nm, d - DaysInMonth(y, m))
    ELSE MkDate(y, m, d, 0)

LeapsBefore(y) == ((y - 1) \div 4) - ((y - 1) \div 100) + ((y - 1) \div 400)

RECURSIVE DaysBeforeMonth(_, _)
DaysBeforeMonth(y, m) ==
    IF m = 0 THEN 0 ELSE DaysBeforeMonth(y, m - 1) + DaysInMonth(y, m - 1)

\* days since 1970-01-01
DayNumber(d) ==
    365 * (d.year - 1970) + LeapsBefore(d.year) - LeapsBefore(1970)
    + DaysBeforeMonth(d.year, d.month) + (d.date - 1)

\* Date.prototype.getDay: 0 = Sunday .. 6 = Saturday (1970-01-01 is a Thursday)
getDay(d) == (DayNumber(d) + 4) % 7

----------------------------------------------------------------------------
(* utils/date *)

getFirstDateOfMonth(year, month) == NewDate(year, month, 1)

isEqualDate(a, b) ==
    IF a = null \/ b = null THEN FALSE
    ELSE a.year = b.year /\ a.month = b.month /\ a.date = b.date

lessThanDate(a, b) ==
    \/ a.year < b.year
    \/ a.year = b.year /\ a.month < b.month
    \/ a.year = b.year /\ a.month = b.month /\ a.date < b.date

isCurrentMonth(d, month) == d.month = month

isCurrentYear(d, year) == d.year = year

----------------------------------------------------------------------------
(* Pure helpers of Calendar.tsx *)

NoGrid == [w \in {} |-> <<>>]

\* the body of the for loop of getDatesByWeek, iterated from i to last - 1
RECURSIVE FillWeeks(_, _, _, _, _, _)
FillWeeks(year, month, startDelta, i, last, acc) ==
    IF i >= last THEN acc
    ELSE LET week == (i + startDelta) \div 7
             date == NewDate(year, month, i + 1)
         IN  FillWeeks(year, month, startDelta, i + 1, last,
                       IF week \in DOMAIN acc
                       THEN [acc EXCEPT ![week] = Append(@, date)]
                       ELSE acc @@ (week :> <<date>>))

\* getDatesByWeek with the row index computed from i alone
getDatesByWeekRowFromIndex(year, month, ws) ==
    LET firstDate      == getFirstDateOfMonth(year, month)
        firstDayOfWeek == getDay(firstDate)
        startDelta     == firstDayOfWeek - ws
        start          == IF startDelta > 0 THEN 0 - startDelta ELSE 0
    IN  FillWeeks(year, month, 0, start, 42 + start, NoGrid)

getDatesByWeek(year, month, ws) ==
    LET firstDate      == getFirstDateOfMonth(year, month)
        firstDayOfWeek == getDay(firstDate)
        startDelta     == firstDayOfWeek - ws
        start          == IF startDelta > 0 THEN 0 - startDelta ELSE 0
    IN  FillWeeks(year, month, startDelta, start, 42 + start, NoGrid)

\* the rows datesByWeek.map visits: the array indices (a negative index is
\* a property of the array object, not an element)
Rows(grid) == {w \in DOMAIN grid : w >= 0}

Cells(grid) == UNION {{grid[w][k] : k \in 1..Len(grid[w])} : w \in Rows(grid)}

getDecade(year, thisYear) ==
    IF year <= thisYear THEN
        LET diff == thisYear - year + 1
            d    == diff \div 10
            end  == thisYear - d * 10
        IN  <<end - 9, end>>
    ELSE
        LET diff  == year - thisYear + 1
            d     == diff \div 10
            start == thisYear + d * 10 + 1
        IN  <<start, start + 9>>

RECURSIVE PushYears(_, _, _)
PushYears(i, last, acc) ==
    IF i > last THEN acc ELSE PushYears(i + 1, last, Append(acc, i))

\* getYearsByDecade without the extra year in front of the decade
getYearsByDecadeNoLead(year, thisYear) ==
    LET dec == getDecade(year, thisYear)
    IN  PushYears(dec[1], dec[2] + 1, <<>>)

getYearsByDecade(year, thisYear) ==
    LET dec == getDecade(year, thisYear)
    IN  PushYears(dec[1] - 1, dec[2] + 1, <<>>)

\* props.disabledDate: absent, or one of three caller predicates
Predicates == {"absent", "never", "weekend", "always"}

CallDisabledDate(p, d) ==
    CASE p = "never"   -> FALSE
      [] p = "weekend" -> getDay(d) \in {0, 6}
      [] p = "always"  -> TRUE

\* isDisabledDate where a supplied predicate has the last word
isDisabledDatePredicateOnly(date, tdy, flag, pred) ==
    IF pred # "absent" THEN CallDisabledDate(pred, date)
    ELSE IF flag /\ lessThanDate(date, tdy) THEN TRUE
    ELSE FALSE

isDisabledDate(date, tdy, flag, pred) ==
    IF pred # "absent" /\ CallDisabledDate(pred, date) THEN TRUE
    ELSE IF flag /\ lessThanDate(date, tdy) THEN TRUE
    ELSE FALSE

----------------------------------------------------------------------------
(* Rendering: what the header and the body show for a given state *)

Modes == {"date", "month", "year"}

\* WeekBox: the weekday shown above each of the 7 columns
WeekBox(start) ==
    [k \in 1..7 |-> IF start + k - 1 < 7 THEN start + k - 1
                                         ELSE start + k - 1 - 7]

\* DateCalendarBody: the rows of the date grid
DateCalendarBody(md, year, month, ws) ==
    IF md = "date" THEN getDatesByWeek(year, month, ws) ELSE NoGrid

\* DateCalendarCell: the cells rendered with the 'disabled' class
DateCalendarCell(grid, tdy, flag, pred) ==
    {d \in Cells(grid) : isDisabledDate(d, tdy, flag, pred)}

\* YearCalendarHeader: the decade shown in the title
YearCalendarHeader(md, year, tdy) ==
    IF md = "year" THEN getDecade(year, tdy.year) ELSE <<>>

\* YearCalendarBody: the year cells
YearCalendarBody(md, year, tdy) ==
    IF md = "year" THEN getYearsByDecade(year, tdy.year) ELSE <<>>

Rendered ==
    /\ datesByWeek = DateCalendarBody(mode, currentYear, currentMonth, weekStart)
    /\ disabledCells = DateCalendarCell(datesByWeek, today, disableTodayAgo,
                                        disabledDate)
    /\ decade = YearCalendarHeader(mode, currentYear, today)
    /\ years = YearCalendarBody(mode, currentYear, today)

\* The rendered output is a function of the props (fixed), today (fixed),
\* currentYear and currentMonth: a re-render with the same year and month
\* produces the same output.
Render ==
    IF currentYear' = currentYear /\ currentMonth' = currentMonth
    THEN UNCHANGED <<datesByWeek, disabledCells, decade, years>>
    ELSE /\ datesByWeek' = DateCalendarBody(mode, currentYear', currentMonth',
                                            weekStart)
         /\ disabledCells' = DateCalendarCell(datesByWeek', today,
                                              disableTodayAgo, disabledDate)
         /\ decade' = YearCalendarHeader(mode, currentYear', today)
         /\ years' = YearCalendarBody(mode, currentYear', today)

----------------------------------------------------------------------------
(* The views the exploration visits: an event is explored when the year and
   month it asks for lie in the window *)

Abs(n) == IF n < 0 THEN 0 - n ELSE n

\* the number of months from today's month to the month shown
MonthsFromToday(tdy, year, month) == 12 * (year - tdy.year) + month - tdy.month

InWindow(md, tdy, year, month) ==
    CASE md = "year"  -> Abs(year - tdy.year) <= 10 * MaxDecades
      [] md = "month" -> Abs(year - tdy.year) <= MaxYears
      [] md = "date"  ->
            LET n == MonthsFromToday(tdy, year, month)
            IN  \/ Abs(n) <= MaxMonths
                \/ n % 12 = 0 /\ (n \div 12) \in 0..MaxYears

----------------------------------------------------------------------------
(* Calendar: construction *)

Event(op, arg, called) == [op |-> op, arg |-> arg, onChange |-> called]

Todays == {MkDate(2024, 0, 31, 10)}

\* defaultValue || value, after getSafeDate
Values == {null, MkDate(2024, 1, 29, 10)}

\* <<weekStart, disableTodayAgo, disabledDate>> of a date-mode calendar:
\* the defaults, and a calendar with every one of them set
DateProps == {<<0, FALSE, "absent">>, <<1, TRUE, "weekend">>}

Calendar(value) ==
    LET dateProp == value
        base     == IF dateProp # null THEN dateProp ELSE today
    IN  /\ selectedDate = dateProp
        /\ currentYear = base.year
        /\ currentMonth = base.month

Init ==
    /\ today \in Todays
    /\ mode \in Modes
    /\ \E p \in (IF mode = "date" THEN DateProps ELSE {<<0, FALSE, "absent">>}) :
          /\ weekStart = p[1]
          /\ disableTodayAgo = p[2]
          /\ disabledDate = p[3]
    /\ \E value \in Values : Calendar(value)
    /\ Rendered
    /\ lastEvent = Event("mount", 0, FALSE)

----------------------------------------------------------------------------
(* Calendar: event handlers *)

handleYearChange(year) == year

\* handleMonthChange that wraps the month and forgets the year
handleMonthChangeKeepYear(month) ==
    IF month < 0 THEN
        [currentYear |-> currentYear, currentMonth |-> 11]
    ELSE IF month > 11 THEN
        [currentYear |-> currentYear, currentMonth |-> 0]
    ELSE
        [currentYear |-> currentYear, currentMonth |-> month]

handleMonthChange(month) ==
    IF month < 0 THEN
        [currentYear |-> currentYear - 1, currentMonth |-> 11]
    ELSE IF month > 11 THEN
        [currentYear |-> currentYear + 1, currentMonth |-> 0]
    ELSE
        [currentYear |-> currentYear, currentMonth |-> month]

handleSelectDate(date) ==
    IF ~isEqualDate(date, selectedDate) THEN
        [selectedDate |-> date,
         currentMonth |-> IF ~isCurrentMonth(date, currentMonth)
                          THEN date.month ELSE currentMonth,
         currentYear  |-> IF ~isCurrentYear(date, currentYear)
                          THEN date.year ELSE currentYear,
         onChange     |-> TRUE]
    ELSE
        [selectedDate |-> selectedDate,
         currentMonth |-> currentMonth,
         currentYear  |-> currentYear,
         onChange     |-> FALSE]

\* a header button of CalendarHeader that changes the year
YearButton(op, year) ==
    /\ InWindow(mode, today, year, currentMonth)
    /\ currentYear' = handleYearChange(year)
    /\ UNCHANGED <<props, selectedDate, currentMonth>>
    /\ Render
    /\ lastEvent' = Event(op, year, FALSE)

\* a header button of CalendarHeader that changes the month
MonthButton(op, month) ==
    /\ InWindow(mode, today, currentYear, month)
    /\ LET r == handleMonthChange(month)
       IN  /\ currentYear' = r.currentYear
           /\ currentMonth' = r.currentMonth
    /\ UNCHANGED <<props, selectedDate>>
    /\ Render
    /\ lastEvent' = Event(op, month, FALSE)

\* props.onSelect(date), called by a cell's handleClick
onSelect(op, arg, date) ==
    /\ InWindow(mode, today, date.year, date.month)
    /\ LET r == handleSelectDate(date)
       IN  /\ selectedDate' = r.selectedDate
           /\ currentYear' = r.currentYear
           /\ currentMonth' = r.currentMonth
           /\ lastEvent' = Event(op, arg, r.onChange)
    /\ UNCHANGED props
    /\ Render

PreviousYear ==
    /\ mode # "year"
    /\ YearButton("previousYear", currentYear - 1)

NextYear ==
    /\ mode # "year"
    /\ YearButton("nextYear", currentYear + 1)

PreviousMonth ==
    /\ mode = "date"
    /\ MonthButton("previousMonth", currentMonth - 1)

NextMonth ==
    /\ mode = "date"
    /\ MonthButton("nextMonth", currentMonth + 1)

PreviousDecade ==
    /\ mode = "year"
    /\ YearButton("previousDecade", currentYear - 10)

NextDecade ==
    /\ mode = "year"
    /\ YearButton("nextDecade", currentYear + 10)

\* the day of month MonthCalendarCell and YearCalendarCell carry over
CarriedDate == IF selectedDate # null THEN selectedDate.date ELSE today.date

ClickDateCell ==
    /\ mode = "date"
    /\ \E d \in Cells(datesByWeek) : onSelect("clickDate", d, d)

ClickMonthCell ==
    /\ mode = "month"
    /\ \E month \in 0..11 :
          onSelect("clickMonth", month,
                   NewDate(currentYear, month, CarriedDate))

ClickYearCell ==
    /\ mode = "year"
    /\ \E k \in 1..Len(years) :
          k <= 12 /\ onSelect("clickYear", years[k],
                              NewDate(years[k], currentMonth, CarriedDate))

Next ==
    \/ PreviousYear
    \/ NextYear
    \/ PreviousMonth
    \/ NextMonth
    \/ PreviousDecade
    \/ NextDecade
    \/ ClickDateCell
    \/ ClickMonthCell
    \/ ClickYearCell

Spec == Init /\ [][Next]_vars

----------------------------------------------------------------------------
(* First render: a calendar constructed with any props, rendered once *)

RenderTodays == {MkDate(2024, 0, 31, 10), MkDate(2023, 5, 15, 23)}

NotRendered ==
    /\ datesByWeek = NoGrid
    /\ disabledCells = {}
    /\ decade = <<>>
    /\ years = <<>>

InitRender ==
    /\ today \in RenderTodays
    /\ mode \in {"date", "year"}
    /\ weekStart \in (IF mode = "date" THEN 0..6 ELSE {0})
    /\ disableTodayAgo \in (IF mode = "date" THEN BOOLEAN ELSE {FALSE})
    /\ disabledDate \in (IF mode = "date" THEN Predicates ELSE {"absent"})
    /\ \E value \in
          {null} \cup
          (IF mode = "date"
           THEN {MkDate(today.year + dy, m, 1, 10) :
                    dy \in (0 - RenderYears)..RenderYears, m \in 0..11}
           ELSE {MkDate(today.year + dy, today.month, 1, 10) :
                    dy \in (0 - 10 * RenderDecades)..(10 * RenderDecades)}) :
          Calendar(value)
    /\ NotRendered
    /\ lastEvent = Event("props", 0, FALSE)

FirstRender ==
    /\ lastEvent.op = "props"
    /\ UNCHANGED <<props, selectedDate, currentYear, currentMonth>>
    /\ datesByWeek' = DateCalendarBody(mode, currentYear, currentMonth,
                                       weekStart)
    /\ disabledCells' = DateCalendarCell(datesByWeek', today, disableTodayAgo,
                                         disabledDate)
    /\ decade' = YearCalendarHeader(mode, currentYear, today)
    /\ years' = YearCalendarBody(mode, currentYear, today)
    /\ lastEvent' = Event("render", 0, FALSE)

RenderDateCalendar == mode = "date" /\ FirstRender

RenderYearCalendar == mode = "year" /\ FirstRender

NextRender ==
    \/ RenderDateCalendar
    \/ RenderYearCalendar

SpecRender == InitRender /\ [][NextRender]_vars

----------------------------------------------------------------------------
(* Properties *)

DateRendered == mode = "date" /\ lastEvent.op = "render"

YearRendered == mode = "year" /\ lastEvent.op = "render"

\* the cells of rows 0..5 read row by row
RECURSIVE Flatten(_, _)
Flatten(grid, w) ==
    IF w \notin DOMAIN grid THEN <<>> ELSE grid[w] \o Flatten(grid, w + 1)

\* C1: the rendered date grid has rows 0..5 of exactly 7 dates each, and read
\* row by row the 42 dates are consecutive calendar days.
C1_SixRowsOfSevenConsecutiveDays ==
    DateRendered =>
        /\ Rows(datesByWeek) = 0..5
        /\ \A w \in Rows(datesByWeek) : Len(datesByWeek[w]) = 7
        /\ LET cells == Flatten(datesByWeek, 0)
           IN  /\ Len(cells) = 42
               /\ \A k \in 1..(Len(cells) - 1) :
                     DayNumber(cells[k + 1]) = DayNumber(cells[k]) + 1

\* C2: the weekday of the first cell of the rendered date grid is weekStart,
\* and every rendered cell stands under its own weekday in the week header.
C2_FirstCellIsWeekStart ==
    DateRendered =>
        /\ 0 \in DOMAIN datesByWeek
        /\ Len(datesByWeek[0]) >= 1
        /\ getDay(datesByWeek[0][1]) = weekStart
        /\ \A w \in Rows(datesByWeek) : \A k \in 1..Len(datesByWeek[w]) :
              k <= 7 /\ getDay(datesByWeek[w][k]) = WeekBox(weekStart)[k]

\* C2 witness: a rendered grid whose month starts on a weekday before
\* weekStart; its first cell is the first weekStart day of the month
C2_Witness ==
    /\ DateRendered
    /\ getDay(NewDate(currentYear, currentMonth, 1)) < weekStart
    /\ getDay(datesByWeek[0][1]) = weekStart
    /\ datesByWeek[0][1].month = currentMonth
    /\ datesByWeek[0][1].date > 1

\* C3: the decade shown for the displayed year contains that year.
C3_DecadeContainsYear ==
    YearRendered => decade[1] <= currentYear /\ currentYear <= decade[2]

\* C4: clicking a date cell rendered as disabled changes neither
\* selectedDate, currentMonth nor currentYear and does not call onChange.
C4_DisabledCellNotSelectable ==
    [][(lastEvent'.op = "clickDate" /\ lastEvent'.arg \in disabledCells)
          => /\ UNCHANGED <<selectedDate, currentMonth, currentYear>>
             /\ ~lastEvent'.onChange]_vars

\* C5: a rendered cell is disabled exactly when the supplied predicate
\* returns true for it or disableTodayAgo is set and its calendar day is
\* before today's; with disableTodayAgo set, yesterday is disabled whatever
\* the predicate says, and today and later days only when the predicate
\* returns true.
C5_DisabledIsPredicateOrPast ==
    DateRendered =>
        \A d \in Cells(datesByWeek) :
            LET byPredicate == disabledDate # "absent"
                                  /\ CallDisabledDate(disabledDate, d)
                past        == DayNumber(d) < DayNumber(today)
            IN  /\ (d \in disabledCells) <=>
                       (byPredicate \/ (disableTodayAgo /\ past))
                /\ (disableTodayAgo /\ DayNumber(d) = DayNumber(today) - 1)
                       => d \in disabledCells
                /\ (disableTodayAgo /\ ~past)
                       => ((d \in disabledCells) <=> byPredicate)

\* C5 witness: disableTodayAgo is set, the predicate never disables, and the
\* grid shows yesterday disabled and today and tomorrow enabled
C5_Witness ==
    /\ DateRendered
    /\ disableTodayAgo
    /\ disabledDate = "never"
    /\ \E y, t, n \in Cells(datesByWeek) :
          /\ DayNumber(y) = DayNumber(today) - 1
          /\ DayNumber(t) = DayNumber(today)
          /\ DayNumber(n) = DayNumber(today) + 1
          /\ y \in disabledCells
          /\ t \notin disabledCells
          /\ n \notin disabledCells

\* C6: the rendered year cells are the 12 consecutive years from one before
\* the start of the displayed decade to one after its end, and the decade
\* spans 10 years.
C6_TwelveYears ==
    YearRendered =>
        /\ decade[2] = decade[1] + 9
        /\ Len(years) = 12
        /\ \A k \in 1..Len(years) : years[k] = decade[1] - 1 + (k - 1)
        /\ years[Len(years)] = decade[2] + 1

\* C6 witness: year windows rendered on the future branch of getDecade
C6_Witness ==
    /\ YearRendered
    /\ currentYear > today.year + 10
    /\ Len(years) = 12
    /\ years[1] = decade[1] - 1

\* C7: one press of the next-decade button moves the displayed decade up by
\* exactly 10 years, one press of the previous-decade button down by 10.
C7_DecadeStepsByTen ==
    [][/\ lastEvent'.op = "nextDecade"
            => decade' = <<decade[1] + 10, decade[2] + 10>>
       /\ lastEvent'.op = "previousDecade"
            => decade' = <<decade[1] - 10, decade[2] - 10>>]_vars

\* C8: clicking the cell of month m while year y is displayed selects a date
\* in month m of year y and makes m the displayed month.
C8_MonthClickSelectsThatMonth ==
    [][lastEvent'.op = "clickMonth"
          => /\ selectedDate' # null
             /\ selectedDate'.month = lastEvent'.arg
             /\ selectedDate'.year = currentYear
             /\ currentMonth' = lastEvent'.arg]_vars

\* C9: after a click on a date cell, currentYear and currentMonth are the
\* year and month of the clicked date and selectedDate is that date.
C9_ViewFollowsClickedDate ==
    lastEvent.op = "clickDate" =>
        /\ isEqualDate(selectedDate, lastEvent.arg)
        /\ currentYear = lastEvent.arg.year
        /\ currentMonth = lastEvent.arg.month

\* C10: currentMonth is always in 0..11; previous-month from January gives
\* December of the year before, next-month from December gives January of
\* the year after, and every other month step keeps the year, so that
\* currentYear * 12 + currentMonth moves by exactly one per month step.
C10_MonthStepsByOne ==
    /\ [](currentMonth \in 0..11)
    /\ [][/\ lastEvent'.op = "previousMonth"
               => /\ IF currentMonth = 0
                     THEN currentMonth' = 11 /\ currentYear' = currentYear - 1
                     ELSE currentMonth' = currentMonth - 1
                          /\ currentYear' = currentYear
                  /\ currentYear' * 12 + currentMonth'
                        = currentYear * 12 + currentMonth - 1
          /\ lastEvent'.op = "nextMonth"
               => /\ IF currentMonth = 11
                     THEN currentMonth' = 0 /\ currentYear' = currentYear + 1
                     ELSE currentMonth' = currentMonth + 1
                          /\ currentYear' = currentYear
                  /\ currentYear' * 12 + currentMonth'
                        = currentYear * 12 + currentMonth + 1]_vars

\* C10 witness: previous-month pressed in January
C10_Witness ==
    /\ lastEvent.op = "previousMonth"
    /\ lastEvent.arg = 0 - 1
    /\ currentMonth = 11
    /\ currentYear = today.year - 1

====
